---------------------------- MODULE Spec2Model ----------------------------
(***************************************************************************)
(* Model of the MuLi filesystem node/handle layer (file.go) and of the     *)
(* playlist part of the metadata store (store package).                    *)
(*                                                                         *)
(* Spec      : one File node and the FileHandles opened on it.             *)
(* StoreSpec : the bolt database, the real file tree below the mount       *)
(*             point, GetPlaylistFilePath and CreatePlaylist.              *)
(*                                                                         *)
(* Go strings are sequences of one-character strings, so that indexing     *)
(* (name[0], name[1], mPoint[len-1]) and concatenation are what the code   *)
(* computes.                                                               *)
(***************************************************************************)
EXTENDS Integers, Sequences, FiniteSets, TLC

VARIABLES
    f,        \* the File node: artist, album, song, name, mPoint
    writers,  \* File.writers (uint, kept as the representative of its residue class)
    data,     \* File.data: nil or a byte slice
    mu,       \* File.mu: 0 when unlocked, else the holder
    attr,     \* position of a running Attr on a special node
    handles,  \* the FileHandles, by slot
    opRet,    \* the last step taken and the response it produced, if any
    db,       \* the bolt database: the root bucket "Playlists"
    disk,     \* the real file tree: what os.Stat finds at the fallback paths
    sRet,     \* the response of the last completed store operation
    prevDb,   \* the database as it was when the last store operation began
    created   \* the normalized names earlier CreatePlaylist calls returned

fileVars  == <<f, writers, data, mu, attr, handles, opRet>>
storeVars == <<db, disk, sRet, prevDb, created>>
vars      == <<f, writers, data, mu, attr, handles, opRet,
               db, disk, sRet, prevDb, created>>

-----------------------------------------------------------------------------
(* Bounds *)

MaxHandles == 2
MaxData == 1

-----------------------------------------------------------------------------
(* Strings *)

S_description == <<".", "d", "e", "s", "c", "r", "i", "p", "t", "i", "o", "n">>
S_DS_Store    == <<".", "D", "S", "_", "S", "t", "o", "r", "e">>
S_drop        == <<"d", "r", "o", "p">>
S_playlist    == <<"p", "l", "a", "y", "l", "i", "s", "t">>
S_dropSlash   == <<"d", "r", "o", "p", "/">>
S_playlistsSlash == <<"p", "l", "a", "y", "l", "i", "s", "t", "s", "/">>
S_mp3         == <<".", "m", "p", "3">>

\* filepath.Ext: the suffix beginning at the final dot of the final path
\* element, empty when there is none.
RECURSIVE ExtFrom(_, _)
ExtFrom(path, i) ==
    IF i < 1 \/ path[i] = "/" THEN <<>>
    ELSE IF path[i] = "." THEN SubSeq(path, i, Len(path))
    ELSE ExtFrom(path, i - 1)

Ext(path) == ExtFrom(path, Len(path))

WithSlash_NeverAppends(mPoint) == mPoint

\* if mPoint[len(mPoint)-1] != '/' { mPoint = mPoint + "/" }
WithSlash(mPoint) ==
    IF mPoint[Len(mPoint)] # "/" THEN mPoint \o <<"/">> ELSE mPoint

-----------------------------------------------------------------------------
(* The File nodes the model is run on *)

MountA == <<"/", "m">>
MountB == <<"/", "m", "/">>

MkFile(artist, album, name, mPoint) ==
    [artist |-> artist, album |-> album, song |-> name, name |-> name,
     mPoint |-> mPoint]

Files ==
    { MkFile(<<"A">>, <<"B">>, S_description, MountA),
      MkFile(<<"A">>, <<>>, S_description, MountA),
      MkFile(<<>>, <<>>, S_description, MountA),
      MkFile(<<"A">>, <<"B">>, <<".", "_", "a">>, MountA),
      MkFile(<<"A">>, <<"B">>, S_DS_Store, MountA),
      MkFile(<<"A">>, <<"B">>, <<".", "x">>, MountA),
      MkFile(S_drop, <<>>, <<"n", ".", "m", "p", "3">>, MountA),
      MkFile(S_drop, <<>>, <<"n", ".", "m", "p", "3">>, MountB),
      MkFile(<<>>, <<>>, <<"l", ".", "m", "3", "u">>, MountA),
      MkFile(S_playlist, <<"P">>, <<"t", ".", "m", "p", "3">>, MountA),
      MkFile(<<"A">>, <<"B">>, <<"a", ".", "m", "p", "3">>, MountA),
      MkFile(<<"A">>, <<"B">>, <<"c", ".", "j", "p", "g">>, MountA) }

\* len(name) > 1 && name[0] == '.' && (name[1] == '_' || name == ".DS_Store")
IsSpecial(name) ==
    Len(name) > 1 /\ name[1] = "." /\ (name[2] = "_" \/ name = S_DS_Store)

OpenFlagsSet == {"RO", "WO", "RW"}

IsReadOnly(flags) == flags = "RO"

\* The content of the real file behind a song, and the stored special file.
FileContent == <<"x", "y">>

Bytes == {"x"}

NilData == [isNil |-> TRUE, b |-> <<>>]

NoRet == [op |-> "none", h |-> 0, err |-> "nil", size |-> 0, off |-> 0,
          mode |-> "", bytes |-> <<>>, calls |-> <<>>]

\* A FileHandle is {r, f}; pos is the position of the descriptor r, flags
\* are the open flags the kernel hands back in the ReleaseRequest (kept for
\* the handles whose Release reads them, "-" otherwise), and closes, ret and
\* calls record what Release did.
FreeHandle == [st |-> "free", r |-> "nil", flags |-> "-", pos |-> 0,
               closes |-> 0, ret |-> "none", calls |-> <<>>]

\* Slots are handed out in order: which free slot a new handle takes is
\* immaterial.
NextFree(hs, h) == hs[h].st = "free" /\ \A k \in 1 .. h - 1 : hs[k].st # "free"

Slots == 1 .. MaxHandles

AttrHolder == MaxHandles + 1

-----------------------------------------------------------------------------
(* Outcomes of the collaborators (store, tools, os), chosen by the environment *)

RealPath == <<"/", "r">>

PathResults  == {[err |-> "nil", path |-> RealPath], [err |-> "errGetFilePath", path |-> <<>>]}
OsOpenErrs   == {"nil", "errOpen"}
CloseErrs    == {"nil", "errClose"}
DropErrs     == {"nil", "errHandleDrop"}
StoreErrs    == {"nil", "errStore"}
TagErrs      == {"nil", "errSetMp3Tags"}

\* A call made to a collaborator: its argument and the error it returned.
Call(fn, arg, res) == [fn |-> fn, arg |-> arg, res |-> res]

-----------------------------------------------------------------------------
(* File.Open *)

FileOpen_NoDotCheck(file, flags, pathRes, osErr) ==
    IF file.name = S_description
    THEN [made |-> TRUE, r |-> "nil", err |-> "nil"]
    ELSE IF pathRes.err # "nil"
    THEN [made |-> FALSE, r |-> "nil", err |-> pathRes.err]
    ELSE IF osErr # "nil"
    THEN [made |-> FALSE, r |-> "nil", err |-> osErr]
    ELSE [made |-> TRUE, r |-> "open", err |-> "nil"]

\* The handle and error File.Open returns; made = FALSE is the nil handle.
FileOpen(file, flags, pathRes, osErr) ==
    IF file.name = S_description
    THEN [made |-> TRUE, r |-> "nil", err |-> "nil"]
    ELSE IF file.name[1] = "."
    THEN [made |-> FALSE, r |-> "nil", err |-> "EPERM"]
    ELSE IF pathRes.err # "nil"
    THEN [made |-> FALSE, r |-> "nil", err |-> pathRes.err]
    ELSE IF osErr # "nil"
    THEN [made |-> FALSE, r |-> "nil", err |-> osErr]
    ELSE [made |-> TRUE, r |-> "open", err |-> "nil"]

Open(h) ==
    /\ NextFree(handles, h)
    /\ \E flags \in OpenFlagsSet, pathRes \in PathResults, osErr \in OsOpenErrs :
         LET res == FileOpen(f, flags, pathRes, osErr) IN
         \* outcomes of calls that are not made are not drawn
         /\ f.name[1] = "." => pathRes.err = "nil"
         /\ f.name[1] = "." \/ pathRes.err # "nil" => osErr = "nil"
         /\ handles' = IF res.made
                       THEN [handles EXCEPT ![h] =
                               [FreeHandle EXCEPT !.st = "open", !.r = res.r]]
                       ELSE handles
         /\ opRet' = [NoRet EXCEPT !.op = "Open", !.err = res.err,
                                   !.h = IF res.made THEN h ELSE 0]
    /\ UNCHANGED <<f, writers, data, mu, attr>>
    /\ UNCHANGED storeVars

\* A special file is opened by the directory layer: the handle has no
\* descriptor and a write-capable open registers a writer under the node lock.
OpenSpecial(h) ==
    /\ IsSpecial(f.name)
    /\ NextFree(handles, h)
    /\ mu = 0
    /\ \E flags \in OpenFlagsSet :
         /\ handles' = [handles EXCEPT ![h] =
                          [FreeHandle EXCEPT !.st = "open", !.flags = flags]]
         /\ writers' = IF IsReadOnly(flags) THEN writers ELSE writers + 1
         /\ opRet' = [NoRet EXCEPT !.op = "OpenSpecial", !.h = h]
    /\ UNCHANGED <<f, data, mu, attr>>
    /\ UNCHANGED storeVars

\* A writer of a special file replaces the node's buffer under the node lock.
BufferWrite(h) ==
    /\ IsSpecial(f.name)
    /\ handles[h].st = "open"
    /\ ~IsReadOnly(handles[h].flags)
    /\ mu = 0
    /\ \E n \in 0 .. MaxData : \E b \in [1 .. n -> Bytes] :
         /\ data' = [isNil |-> FALSE, b |-> b]
         /\ data' # data
    /\ opRet' = [NoRet EXCEPT !.op = "BufferWrite", !.h = h]
    /\ UNCHANGED <<f, writers, mu, attr, handles>>
    /\ UNCHANGED storeVars

-----------------------------------------------------------------------------
(* FileHandle.Release *)

WritersAfterRelease_NoDecrement(w) == w

WritersAfterRelease_Twice(w) == w - 2

\* fh.f.writers-- on a uint: 0 wraps to ^uint(0), whose representative is -1.
WritersAfterRelease(w) == w - 1

DataAfterRelease_KeepsBuffer(w, d) == d

\* if fh.f.writers == 0 { fh.f.data = nil }
DataAfterRelease(w, d) == IF w = 0 THEN NilData ELSE d

\* Release of a handle without descriptor that returns before the lock:
\* .description, a special file released read-only, any other name.
ReleaseNoFd(h) ==
    /\ handles[h].st = "open"
    /\ handles[h].r = "nil"
    /\ \/ f.name = S_description
       \/ ~IsSpecial(f.name)
       \/ IsReadOnly(handles[h].flags)
    /\ handles' = [handles EXCEPT ![h].st = "done", ![h].ret = "nil"]
    /\ opRet' = [NoRet EXCEPT !.op = "Release", !.h = h]
    /\ UNCHANGED <<f, writers, data, mu, attr>>
    /\ UNCHANGED storeVars

ReleaseLock_NoWait(h) ==
    /\ handles[h].st = "open"
    /\ handles[h].r = "nil"
    /\ f.name # S_description
    /\ IsSpecial(f.name)
    /\ ~IsReadOnly(handles[h].flags)
    /\ mu' = h
    /\ handles' = [handles EXCEPT ![h].st = "rel_dec"]
    /\ opRet' = [NoRet EXCEPT !.op = "ReleaseLock", !.h = h]
    /\ UNCHANGED <<f, writers, data, attr>>
    /\ UNCHANGED storeVars

ReleaseLock_IgnoresReadOnly(h) ==
    /\ handles[h].st = "open"
    /\ handles[h].r = "nil"
    /\ f.name # S_description
    /\ IsSpecial(f.name)
    /\ mu = 0
    /\ mu' = h
    /\ handles' = [handles EXCEPT ![h].st = "rel_dec"]
    /\ opRet' = [NoRet EXCEPT !.op = "ReleaseLock", !.h = h]
    /\ UNCHANGED <<f, writers, data, attr>>
    /\ UNCHANGED storeVars

\* fh.f.mu.Lock()
ReleaseLock(h) ==
    /\ handles[h].st = "open"
    /\ handles[h].r = "nil"
    /\ f.name # S_description
    /\ IsSpecial(f.name)
    /\ ~IsReadOnly(handles[h].flags)
    /\ mu = 0
    /\ mu' = h
    /\ handles' = [handles EXCEPT ![h].st = "rel_dec"]
    /\ opRet' = [NoRet EXCEPT !.op = "ReleaseLock", !.h = h]
    /\ UNCHANGED <<f, writers, data, attr>>
    /\ UNCHANGED storeVars

\* fh.f.writers--
ReleaseDec(h) ==
    /\ handles[h].st = "rel_dec"
    /\ writers' = WritersAfterRelease(writers)
    /\ handles' = [handles EXCEPT ![h].st = "rel_chk"]
    /\ opRet' = [NoRet EXCEPT !.op = "ReleaseDec", !.h = h]
    /\ UNCHANGED <<f, data, mu, attr>>
    /\ UNCHANGED storeVars

\* if fh.f.writers == 0 { fh.f.data = nil }
ReleaseChk(h) ==
    /\ handles[h].st = "rel_chk"
    /\ data' = DataAfterRelease(writers, data)
    /\ handles' = [handles EXCEPT ![h].st = "rel_unlock"]
    /\ opRet' = [NoRet EXCEPT !.op = "ReleaseChk", !.h = h]
    /\ UNCHANGED <<f, writers, mu, attr>>
    /\ UNCHANGED storeVars

\* return nil, running the deferred fh.f.mu.Unlock()
ReleaseUnlock(h) ==
    /\ handles[h].st = "rel_unlock"
    /\ mu' = 0
    /\ handles' = [handles EXCEPT ![h].st = "done", ![h].ret = "nil"]
    /\ opRet' = [NoRet EXCEPT !.op = "Release", !.h = h]
    /\ UNCHANGED <<f, writers, data, attr>>
    /\ UNCHANGED storeVars

\* Release of a handle with a descriptor on a drop-area node: the calls it
\* makes, in order, and the error it returns.
ReleaseDrop_SwallowsError(file, closeErr, dropErr) ==
    LET path == WithSlash(file.mPoint) \o S_dropSlash \o file.name IN
    [calls |-> <<Call("Close", <<>>, closeErr), Call("HandleDrop", path, dropErr)>>,
     ret   |-> closeErr]

ReleaseDrop(file, closeErr, dropErr) ==
    LET path == WithSlash(file.mPoint) \o S_dropSlash \o file.name IN
    [calls |-> <<Call("Close", <<>>, closeErr), Call("HandleDrop", path, dropErr)>>,
     ret   |-> IF dropErr # "nil" THEN dropErr ELSE closeErr]

\* Release with artist and album set: close, resolve the path, rewrite the
\* tags of an .mp3 that is not a playlist entry.
ReleaseSong_ResolvesFirst(file, closeErr, pathRes, tagErr) ==
    IF pathRes.err # "nil"
    THEN [calls |-> <<Call("GetFilePath", file.name, pathRes.err)>>,
          ret   |-> pathRes.err]
    ELSE IF file.artist # S_playlist /\ Ext(file.name) = S_mp3
    THEN [calls |-> <<Call("GetFilePath", file.name, pathRes.err),
                      Call("Close", <<>>, closeErr),
                      Call("SetMp3Tags", pathRes.path, tagErr)>>,
          ret   |-> closeErr]
    ELSE [calls |-> <<Call("GetFilePath", file.name, pathRes.err),
                      Call("Close", <<>>, closeErr)>>,
          ret   |-> closeErr]

ReleaseSong_TagsAnyExtension(file, closeErr, pathRes, tagErr) ==
    IF pathRes.err # "nil"
    THEN [calls |-> <<Call("Close", <<>>, closeErr),
                      Call("GetFilePath", file.name, pathRes.err)>>,
          ret   |-> pathRes.err]
    ELSE IF file.artist = S_playlist
    THEN [calls |-> <<Call("Close", <<>>, closeErr),
                      Call("GetFilePath", file.name, pathRes.err)>>,
          ret   |-> closeErr]
    ELSE [calls |-> <<Call("Close", <<>>, closeErr),
                      Call("GetFilePath", file.name, pathRes.err),
                      Call("SetMp3Tags", pathRes.path, tagErr)>>,
          ret   |-> closeErr]

ReleaseSong(file, closeErr, pathRes, tagErr) ==
    IF pathRes.err # "nil"
    THEN [calls |-> <<Call("Close", <<>>, closeErr),
                      Call("GetFilePath", file.name, pathRes.err)>>,
          ret   |-> pathRes.err]
    ELSE IF file.artist = S_playlist
    THEN [calls |-> <<Call("Close", <<>>, closeErr),
                      Call("GetFilePath", file.name, pathRes.err)>>,
          ret   |-> closeErr]
    ELSE IF Ext(file.name) = S_mp3
    THEN [calls |-> <<Call("Close", <<>>, closeErr),
                      Call("GetFilePath", file.name, pathRes.err),
                      Call("SetMp3Tags", pathRes.path, tagErr)>>,
          ret   |-> closeErr]
    ELSE [calls |-> <<Call("Close", <<>>, closeErr),
                      Call("GetFilePath", file.name, pathRes.err)>>,
          ret   |-> closeErr]

\* Release of a handle with a descriptor.
ReleaseFd(file, closeErr, dropErr, pathRes, tagErr) ==
    IF file.artist = S_drop
    THEN ReleaseDrop(file, closeErr, dropErr)
    ELSE IF Len(file.artist) < 1 \/ Len(file.album) < 1
    THEN [calls |-> <<Call("Close", <<>>, closeErr)>>, ret |-> closeErr]
    ELSE ReleaseSong(file, closeErr, pathRes, tagErr)

NumCloses(calls) == Cardinality({i \in 1 .. Len(calls) : calls[i].fn = "Close"})

Release(h) ==
    /\ handles[h].st = "open"
    /\ handles[h].r # "nil"
    /\ \E closeErr \in CloseErrs, dropErr \in DropErrs, pathRes \in PathResults,
          tagErr \in TagErrs :
         LET res == ReleaseFd(f, closeErr, dropErr, pathRes, tagErr) IN
         \* outcomes of calls that are not made are not drawn
         /\ \A fn \in {"HandleDrop", "GetFilePath", "SetMp3Tags"} :
              (\A i \in 1 .. Len(res.calls) : res.calls[i].fn # fn)
                => CASE fn = "HandleDrop"  -> dropErr = "nil"
                     [] fn = "GetFilePath" -> pathRes.err = "nil"
                     [] fn = "SetMp3Tags"  -> tagErr = "nil"
         /\ handles' = [handles EXCEPT
                          ![h].st = "done",
                          ![h].calls = res.calls,
                          ![h].closes = NumCloses(res.calls),
                          ![h].r = IF NumCloses(res.calls) > 0 THEN "closed" ELSE "open",
                          ![h].pos = 0,
                          ![h].ret = res.ret]
         /\ opRet' = [NoRet EXCEPT !.op = "Release", !.h = h, !.err = res.ret]
    /\ UNCHANGED <<f, writers, data, mu, attr>>
    /\ UNCHANGED storeVars

-----------------------------------------------------------------------------
(* File.Attr *)

DescJson == <<"{", "}">>

StoredSpecial == <<"s", "s", "s">>

DescResults    == {[err |-> "nil", b |-> DescJson], [err |-> "errStore", b |-> <<>>]}
SpecialResults == {[err |-> "nil", b |-> StoredSpecial], [err |-> "errStore", b |-> <<>>]}
StatErrs       == {"nil", "errStat"}

\* Attr of .description and of names that do not start with a dot.
AttrPlain(file, descRes, pathRes, osErr, statErr) ==
    IF file.name = S_description
    THEN IF descRes.err # "nil"
         THEN [err |-> descRes.err, size |-> 0, mode |-> ""]
         ELSE [err |-> "nil", size |-> Len(descRes.b), mode |-> "0444"]
    ELSE IF pathRes.err # "nil" THEN [err |-> pathRes.err, size |-> 0, mode |-> ""]
    ELSE IF osErr # "nil" THEN [err |-> osErr, size |-> 0, mode |-> ""]
    ELSE IF statErr # "nil" THEN [err |-> statErr, size |-> 0, mode |-> ""]
    ELSE [err |-> "nil", size |-> Len(FileContent), mode |-> "0777"]

AttrSpecial_AlwaysAsksStore(w, d, specRes) ==
    [err   |-> specRes.err,
     size  |-> IF specRes.err = "nil" THEN Len(specRes.b) ELSE Len(d.b),
     mode  |-> "0666",
     calls |-> <<Call("GetSpecialFile", <<>>, specRes.err)>>]

\* Attr of a dot name other than .description, inside the node lock: the
\* response and the call made to the store.
AttrSpecial(w, d, specRes) ==
    IF w = 0
    THEN [err   |-> specRes.err,
          size  |-> IF specRes.err = "nil" THEN Len(specRes.b) ELSE Len(d.b),
          mode  |-> "0666",
          calls |-> <<Call("GetSpecialFile", <<>>, specRes.err)>>]
    ELSE [err |-> "nil", size |-> Len(d.b), mode |-> "0666", calls |-> <<>>]

Attr ==
    /\ f.name[1] # "." \/ f.name = S_description
    /\ \E descRes \in DescResults, pathRes \in PathResults,
          osErr \in OsOpenErrs, statErr \in StatErrs :
         \* outcomes of calls that are not made are not drawn
         /\ f.name # S_description => descRes.err = "nil"
         /\ f.name = S_description \/ pathRes.err # "nil" => osErr = "nil"
         /\ f.name = S_description \/ pathRes.err # "nil" \/ osErr # "nil"
              => statErr = "nil"
         /\ f.name = S_description => pathRes.err = "nil"
         /\ LET res == AttrPlain(f, descRes, pathRes, osErr, statErr) IN
              opRet' = [NoRet EXCEPT !.op = "Attr", !.err = res.err,
                                     !.size = res.size, !.mode = res.mode]
    /\ UNCHANGED <<f, writers, data, mu, attr, handles>>
    /\ UNCHANGED storeVars

\* f.mu.Lock()
AttrLock ==
    /\ f.name[1] = "." /\ f.name # S_description
    /\ attr = "idle"
    /\ mu = 0
    /\ mu' = AttrHolder
    /\ attr' = "locked"
    /\ opRet' = [NoRet EXCEPT !.op = "AttrLock"]
    /\ UNCHANGED <<f, writers, data, handles>>
    /\ UNCHANGED storeVars

\* the body of the locked branch and the deferred f.mu.Unlock()
AttrUnlock ==
    /\ attr = "locked"
    /\ \E specRes \in SpecialResults :
         LET res == AttrSpecial(writers, data, specRes) IN
         \* outcomes of calls that are not made are not drawn
         /\ res.calls = <<>> => specRes.err = "nil"
         /\ opRet' = [NoRet EXCEPT !.op = "Attr", !.err = res.err,
                                   !.size = res.size, !.mode = res.mode,
                                   !.calls = res.calls]
    /\ mu' = 0
    /\ attr' = "idle"
    /\ UNCHANGED <<f, writers, data, handles>>
    /\ UNCHANGED storeVars

-----------------------------------------------------------------------------
(* FileHandle.Read, Write, Flush and File.Setattr *)

ReadSizes == {0, 1, 3}

ReadOffsets == {0, 1}

ReadErrs == {"nil", "errRead"}

Min(a, b) == IF a < b THEN a ELSE b

\* fh.r.Read(buf) reads at the descriptor's own position; req.Offset is not
\* used.
FileRead(file, hnd, size, offset, artistErr, albumErr, descRes, readErr) ==
    IF hnd.r = "nil"
    THEN IF file.name = S_description
         THEN IF Len(file.artist) < 1 THEN [err |-> "ENOENT", bytes |-> <<>>, pos |-> hnd.pos]
              ELSE IF artistErr # "nil" THEN [err |-> artistErr, bytes |-> <<>>, pos |-> hnd.pos]
              ELSE IF Len(file.album) > 1 /\ albumErr # "nil"
                   THEN [err |-> albumErr, bytes |-> <<>>, pos |-> hnd.pos]
              ELSE IF descRes.err # "nil" THEN [err |-> descRes.err, bytes |-> <<>>, pos |-> hnd.pos]
              ELSE [err |-> "nil", bytes |-> descRes.b, pos |-> hnd.pos]
         ELSE [err |-> "EIO", bytes |-> <<>>, pos |-> hnd.pos]
    ELSE IF readErr # "nil"
         THEN [err |-> readErr, bytes |-> <<>>, pos |-> hnd.pos]
         ELSE LET n == Min(size, Len(FileContent) - hnd.pos) IN
              [err   |-> "nil",
               bytes |-> SubSeq(FileContent, hnd.pos + 1, hnd.pos + n),
               pos   |-> hnd.pos + n]

Read(h) ==
    /\ handles[h].st = "open"
    /\ \E size \in ReadSizes, offset \in ReadOffsets,
          artistErr \in StoreErrs, albumErr \in StoreErrs,
          descRes \in DescResults, readErr \in ReadErrs :
         \* outcomes of calls that are not made are not drawn
         /\ handles[h].r = "nil" => readErr = "nil"
         /\ handles[h].r # "nil" \/ f.name # S_description
              => artistErr = "nil" /\ albumErr = "nil" /\ descRes.err = "nil"
         /\ LET res == FileRead(f, handles[h], size, offset, artistErr, albumErr, descRes, readErr) IN
              /\ handles' = [handles EXCEPT ![h].pos = res.pos]
              /\ opRet' = [NoRet EXCEPT !.op = "Read", !.h = h, !.err = res.err,
                                        !.size = size, !.off = offset,
                                        !.bytes = res.bytes]
    /\ UNCHANGED <<f, writers, data, mu, attr>>
    /\ UNCHANGED storeVars

\* The descriptor comes from os.Open, which opens O_RDONLY: the write(2) on
\* it fails with EBADF and writes nothing.
FileWrite(file, hnd, bytes) ==
    IF hnd.r = "nil"
    THEN IF file.name = S_description THEN [err |-> "EPERM", size |-> 0]
         ELSE [err |-> "EIO", size |-> 0]
    ELSE [err |-> "EBADF", size |-> 0]

Write(h) ==
    /\ handles[h].st = "open"
    /\ \E n \in 0 .. MaxData : \E b \in [1 .. n -> Bytes] :
         LET res == FileWrite(f, handles[h], b) IN
         opRet' = [NoRet EXCEPT !.op = "Write", !.h = h, !.err = res.err,
                                !.size = res.size, !.bytes = b]
    /\ UNCHANGED <<f, writers, data, mu, attr, handles>>
    /\ UNCHANGED storeVars

FileFlush(file, hnd) == IF hnd.r = "nil" THEN "EIO" ELSE "nil"

Flush(h) ==
    /\ handles[h].st = "open"
    /\ opRet' = [NoRet EXCEPT !.op = "Flush", !.h = h, !.err = FileFlush(f, handles[h])]
    /\ UNCHANGED <<f, writers, data, mu, attr, handles>>
    /\ UNCHANGED storeVars

Setattr ==
    /\ \E size \in ReadSizes :
         opRet' = [NoRet EXCEPT !.op = "Setattr", !.size = size]
    /\ UNCHANGED <<f, writers, data, mu, attr, handles>>
    /\ UNCHANGED storeVars

-----------------------------------------------------------------------------
(* The bolt database and the real file tree *)

PlaylistKeys == {<<"P">>, <<"Q">>}

SongKeys == {<<"s">>}

\* Stored song records: the JSON of a PlaylistFile, and bytes that are not.
RecPathA   == "{\"path\":\"/a\"}"
RecNoPath  == "{}"
RecTrunc   == "{\"path\":"
RecBadType == "{\"path\":5}"

Records == {RecPathA, RecNoPath, RecTrunc, RecBadType}

\* json.Unmarshal(songJson, &file) into PlaylistFile{Path string `json:"path"`}
JsonUnmarshal(bytes) ==
    CASE bytes = RecPathA   -> [err |-> "nil", path |-> <<"/", "a">>]
      [] bytes = RecNoPath  -> [err |-> "nil", path |-> <<>>]
      [] bytes = RecTrunc   -> [err |-> "unexpected end of JSON input", path |-> <<>>]
      [] bytes = RecBadType -> [err |-> "cannot unmarshal number", path |-> <<>>]

\* A key of a bucket: absent, a nested bucket (its value reads as nil), or a
\* leaf value.
NoEntry     == [kind |-> "none", val |-> ""]
SubBucket   == [kind |-> "bucket", val |-> ""]
Leaf(bytes) == [kind |-> "leaf", val |-> bytes]

SongEntries == {NoEntry, SubBucket} \cup {Leaf(b) : b \in Records}

NoSongs == [s \in SongKeys |-> NoEntry]

NoKey          == [kind |-> "none", songs |-> NoSongs]
RootLeaf       == [kind |-> "leaf", songs |-> NoSongs]
Playlist(songs) == [kind |-> "bucket", songs |-> songs]

RootEntries == {NoKey, RootLeaf} \cup {Playlist(ss) : ss \in [SongKeys -> SongEntries]}

NoDb == [root |-> FALSE, keys |-> [p \in PlaylistKeys |-> NoKey]]

Dbs == {NoDb} \cup {[root |-> TRUE, keys |-> ks] : ks \in [PlaylistKeys -> RootEntries]}

\* <mountRoot>/playlists/<playlistName>/<songName> below the mount point /m
DiskPath(playlist, song) ==
    <<"/", "m", "/">> \o S_playlistsSlash \o playlist \o <<"/">> \o song

DiskPaths == {DiskPath(p, s) : p \in PlaylistKeys, s \in SongKeys}

Disks == [DiskPaths -> {"none", "file", "dir"}]

\* os.Stat(path): what is at the path
Stat(dsk, path) == IF path \in DOMAIN dsk THEN dsk[path] ELSE "none"

DbOpenErrs == {"nil", "errDbOpen"}
CommitErrs == {"nil", "errCommit"}

-----------------------------------------------------------------------------
(* GetPlaylistFilePath *)

\* The function passed to db.View: the error it returns and returnValue.
ViewSong(d, playlist, song) ==
    IF ~d.root
    THEN [err |-> "No playlists.", path |-> <<>>]
    ELSE IF playlist \notin DOMAIN d.keys \/ d.keys[playlist].kind # "bucket"
    THEN [err |-> "Playlist not exists.", path |-> <<>>]
    ELSE IF song \notin DOMAIN d.keys[playlist].songs
            \/ d.keys[playlist].songs[song].kind # "leaf"
    THEN [err |-> "Song not found.", path |-> <<>>]
    ELSE LET file == JsonUnmarshal(d.keys[playlist].songs[song].val) IN
         IF file.err # "nil"
         THEN [err |-> "Cannot open song.", path |-> <<>>]
         ELSE [err |-> "nil", path |-> file.path]

GetPlaylistFilePath_FallbackFirst(d, dsk, playlist, song, mPoint, openErr) ==
    IF openErr # "nil"
    THEN [path |-> <<>>, err |-> openErr]
    ELSE LET view == ViewSong(d, playlist, song)
             fullPath == WithSlash(mPoint) \o S_playlistsSlash \o playlist
                           \o <<"/">> \o song IN
         IF Stat(dsk, fullPath) = "file"
         THEN [path |-> fullPath, err |-> "nil"]
         ELSE IF view.err = "nil"
         THEN [path |-> view.path, err |-> "nil"]
         ELSE [path |-> <<>>, err |-> "File not exists."]

GetPlaylistFilePath(d, dsk, playlist, song, mPoint, openErr) ==
    IF openErr # "nil"
    THEN [path |-> <<>>, err |-> openErr]
    ELSE LET view == ViewSong(d, playlist, song) IN
         IF view.err = "nil"
         THEN [path |-> view.path, err |-> "nil"]
         ELSE LET fullPath == WithSlash(mPoint) \o S_playlistsSlash \o playlist
                                \o <<"/">> \o song IN
              IF Stat(dsk, fullPath) = "none" \/ Stat(dsk, fullPath) = "dir"
              THEN [path |-> <<>>, err |-> "File not exists."]
              ELSE [path |-> fullPath, err |-> "nil"]

NoSRet == [op |-> "none", playlist |-> <<>>, song |-> <<>>, mPoint |-> <<>>,
           openErr |-> "nil", commitErr |-> "nil",
           path |-> <<>>, err |-> "nil", events |-> <<>>, again |-> FALSE,
           list |-> <<>>, raw |-> <<>>, readErr |-> "nil"]

DoGetPlaylistFilePath ==
    /\ \E playlist \in PlaylistKeys, song \in SongKeys, mPoint \in {MountA, MountB},
          openErr \in DbOpenErrs :
         LET res == GetPlaylistFilePath(db, disk, playlist, song, mPoint, openErr) IN
         sRet' = [NoSRet EXCEPT !.op = "GetPlaylistFilePath", !.playlist = playlist,
                                !.song = song, !.mPoint = mPoint, !.openErr = openErr,
                                !.path = res.path, !.err = res.err]
    /\ prevDb' = db
    /\ UNCHANGED <<db, disk, created>>
    /\ UNCHANGED fileVars

-----------------------------------------------------------------------------
(* CreatePlaylist *)

RawNames == {<<"P">>, <<"P", " ">>, <<"Q">>, <<"Q", " ", " ">>}

RECURSIVE TrimRight(_)
TrimRight(name) ==
    IF name # <<>> /\ name[Len(name)] = " "
    THEN TrimRight(SubSeq(name, 1, Len(name) - 1))
    ELSE name

\* The filesystem-safe form of a name: surrounding blanks dropped, inner
\* blanks replaced.
getCompatibleString(name) ==
    LET t == TrimRight(name) IN
    [i \in 1 .. Len(t) |-> IF t[i] = " " THEN "_" ELSE t[i]]

CreateBucketIfNotExists_FailsIfExists(keys, name) ==
    IF Len(name) = 0
    THEN [err |-> "ErrBucketNameRequired", keys |-> keys]
    ELSE IF keys[name].kind = "leaf"
    THEN [err |-> "ErrIncompatibleValue", keys |-> keys]
    ELSE IF keys[name].kind = "bucket"
    THEN [err |-> "ErrBucketExists", keys |-> keys]
    ELSE [err |-> "nil", keys |-> [keys EXCEPT ![name] = Playlist(NoSongs)]]

\* root.CreateBucketIfNotExists([]byte(name)) inside the transaction
CreateBucketIfNotExists(keys, name) ==
    IF Len(name) = 0
    THEN [err |-> "ErrBucketNameRequired", keys |-> keys]
    ELSE IF keys[name].kind = "leaf"
    THEN [err |-> "ErrIncompatibleValue", keys |-> keys]
    ELSE IF keys[name].kind = "bucket"
    THEN [err |-> "nil", keys |-> keys]
    ELSE [err |-> "nil", keys |-> [keys EXCEPT ![name] = Playlist(NoSongs)]]

\* The function passed to db.Update, run on the transaction's view.
TxCreate(d, name) ==
    LET made == CreateBucketIfNotExists(d.keys, name) IN
    [err |-> made.err, db |-> [root |-> TRUE, keys |-> made.keys]]

\* db.Update: the transaction's writes reach the database only when the
\* function returns nil and the commit succeeds.
DbUpdate(d, tx, commitErr) ==
    IF tx.err # "nil" THEN [err |-> tx.err, db |-> d, events |-> <<"Update", "Rollback">>]
    ELSE IF commitErr # "nil"
    THEN [err |-> commitErr, db |-> d, events |-> <<"Update", "Rollback">>]
    ELSE [err |-> "nil", db |-> tx.db, events |-> <<"Update", "Commit">>]

CreatePlaylist_RegeneratesAnyway(d, raw, mPoint, openErr, commitErr) ==
    LET name == getCompatibleString(raw) IN
    IF openErr # "nil"
    THEN [db |-> d, name |-> <<>>, err |-> openErr, events |-> <<>>]
    ELSE LET upd == DbUpdate(d, TxCreate(d, name), commitErr) IN
         [db |-> upd.db, name |-> IF upd.err # "nil" THEN <<>> ELSE name,
          err |-> upd.err, events |-> upd.events \o <<"RegeneratePlaylistFile">>]

CreatePlaylist(d, raw, mPoint, openErr, commitErr) ==
    LET name == getCompatibleString(raw) IN
    IF openErr # "nil"
    THEN [db |-> d, name |-> <<>>, err |-> openErr, events |-> <<>>]
    ELSE LET upd == DbUpdate(d, TxCreate(d, name), commitErr) IN
         IF upd.err # "nil"
         THEN [db |-> upd.db, name |-> <<>>, err |-> upd.err, events |-> upd.events]
         ELSE [db |-> upd.db, name |-> name, err |-> "nil",
               events |-> upd.events \o <<"RegeneratePlaylistFile">>]

DoCreatePlaylist ==
    /\ \E raw \in RawNames, mPoint \in {MountA, MountB},
          openErr \in DbOpenErrs, commitErr \in CommitErrs :
         LET res == CreatePlaylist(db, raw, mPoint, openErr, commitErr) IN
         /\ db' = res.db
         /\ sRet' = [NoSRet EXCEPT !.op = "CreatePlaylist", !.playlist = raw,
                                   !.mPoint = mPoint, !.openErr = openErr,
                                   !.commitErr = commitErr,
                                   !.path = res.name, !.err = res.err,
                                   !.events = res.events,
                                   !.again = getCompatibleString(raw) \in created]
         /\ created' = IF res.err = "nil" THEN created \cup {res.name} ELSE created
    /\ prevDb' = db
    /\ UNCHANGED disk
    /\ UNCHANGED fileVars

-----------------------------------------------------------------------------
(* Specifications *)

FileInit ==
    /\ f \in Files
    /\ writers = 0
    /\ data = NilData
    /\ mu = 0
    /\ attr = "idle"
    /\ handles = [h \in Slots |-> FreeHandle]
    /\ opRet = NoRet

Init ==
    /\ FileInit
    /\ db = NoDb
    /\ disk = [p \in DiskPaths |-> "none"]
    /\ sRet = NoSRet
    /\ prevDb = NoDb
    /\ created = {}

Next ==
    \/ \E h \in Slots : Open(h)
    \/ \E h \in Slots : OpenSpecial(h)
    \/ \E h \in Slots : BufferWrite(h)
    \/ \E h \in Slots : ReleaseNoFd(h)
    \/ \E h \in Slots : ReleaseLock(h)
    \/ \E h \in Slots : ReleaseDec(h)
    \/ \E h \in Slots : ReleaseChk(h)
    \/ \E h \in Slots : ReleaseUnlock(h)
    \/ \E h \in Slots : Release(h)
    \/ Attr
    \/ AttrLock
    \/ AttrUnlock
    \/ \E h \in Slots : Read(h)
    \/ \E h \in Slots : Write(h)
    \/ \E h \in Slots : Flush(h)
    \/ Setattr

Spec == Init /\ [][Next]_vars

StoreInit ==
    /\ f = MkFile(<<>>, <<>>, <<"l", ".", "m", "3", "u">>, MountA)
    /\ writers = 0
    /\ data = NilData
    /\ mu = 0
    /\ attr = "idle"
    /\ handles = [h \in Slots |-> FreeHandle]
    /\ opRet = NoRet
    /\ db \in Dbs
    /\ disk \in Disks
    /\ sRet = NoSRet
    /\ prevDb = db
    /\ created = {}

StoreNext ==
    \/ DoGetPlaylistFilePath
    \/ DoCreatePlaylist

StoreSpec == StoreInit /\ [][StoreNext]_vars

-----------------------------------------------------------------------------
(* Properties of the node/handle layer *)

\* The handles opened write-capable on the special file.
WriterHandles ==
    {h \in Slots : handles[h].st # "free" /\ handles[h].flags \in {"WO", "RW"}}

InRelease(h) == handles[h].st \in {"rel_dec", "rel_chk", "rel_unlock"}

\* A step of the Release of a write-capable special-file handle.
ReleaseStep(h) ==
    /\ h \in WriterHandles
    /\ handles[h].st # handles'[h].st
    /\ handles'[h].st \in {"rel_dec", "rel_chk", "rel_unlock", "done"}

C1_TwoWritersState ==
    (IsSpecial(f.name) /\ Cardinality(WriterHandles) = 2) =>
        /\ (\A h \in WriterHandles : handles[h].st = "done")
             => writers = 0 /\ data = NilData
        /\ (\E h, g \in WriterHandles :
               handles[h].st = "done" /\ handles[g].st = "open")
             => writers = 1

C1_OneLeftStep ==
    \A h \in Slots :
        (/\ ReleaseStep(h)
         /\ Cardinality(WriterHandles) = 2
         /\ \E g \in WriterHandles : g # h /\ handles[g].st = "open")
          => data' = data

DropReleased(h) ==
    /\ f.artist = S_drop
    /\ handles[h].st = "done"
    /\ handles[h].r # "nil"

\* C3: Release of a handle with a descriptor on a drop-area node closes the
\* descriptor first and then invokes the drop handler, closes it whatever
\* the drop handler returns, returns the drop handler's error when there is
\* one and the result of the close otherwise.
C3_DropRelease ==
    \A h \in Slots :
        DropReleased(h) =>
            LET calls == handles[h].calls IN
            /\ Len(calls) = 2
            /\ calls[1].fn = "Close"
            /\ calls[2].fn = "HandleDrop"
            /\ handles[h].r = "closed"
            /\ calls[2].res # "nil" => handles[h].ret = calls[2].res
            /\ calls[2].res = "nil" => handles[h].ret = calls[1].res

C3_Witness ==
    \E h \in Slots :
        /\ DropReleased(h)
        /\ handles[h].ret = "errHandleDrop"
        /\ handles[h].calls[1].res = "errClose"
        /\ handles[h].r = "closed"

\* C4: a descriptor opened by Open stays open until the Release of its
\* handle, and every Release path, the error returns included, closes it
\* exactly once.
C4_ClosedExactlyOnce ==
    \A h \in Slots :
        /\ (handles[h].st = "open" /\ handles[h].r # "nil")
             => handles[h].r = "open" /\ handles[h].closes = 0
        /\ (handles[h].st = "done" /\ handles[h].r # "nil")
             => handles[h].r = "closed" /\ handles[h].closes = 1

C4_Witness ==
    \E h \in Slots :
        /\ handles[h].st = "done"
        /\ handles[h].ret = "errGetFilePath"
        /\ handles[h].closes = 1

IsDotFile(name) == name[1] = "." /\ name # S_description

C8_OpenState ==
    opRet.op = "Open" =>
        /\ IsDotFile(f.name) => opRet.err = "EPERM" /\ opRet.h = 0
        /\ f.name = S_description
             => opRet.err = "nil" /\ opRet.h # 0 /\ handles[opRet.h].r = "nil"

C8_OpenStep ==
    (opRet'.op = "Open" /\ IsDotFile(f.name))
        => UNCHANGED <<handles, writers, data>>

\* C8: Open on a name that starts with a dot and is not .description fails
\* with EPERM, returns no handle, opens no descriptor and leaves the
\* handles, the writer count and the buffer as they were; Open on
\* .description succeeds with a handle that has no descriptor.
C8_OpenDotFile == [](C8_OpenState) /\ [][C8_OpenStep]_vars

C8_Witness ==
    /\ opRet.op = "Open"
    /\ IsSpecial(f.name)
    /\ opRet.err = "EPERM"
    /\ writers = 1
    /\ ~data.isNil

-----------------------------------------------------------------------------
(* Properties of the playlist store *)

\* The last store operation was a GetPlaylistFilePath that opened the store.
Resolved == sRet.op = "GetPlaylistFilePath" /\ sRet.openErr = "nil"

\* What the store holds at Playlists/<playlist>/<song>.
HasRecord(d, playlist, song) ==
    /\ d.root
    /\ d.keys[playlist].kind = "bucket"
    /\ d.keys[playlist].songs[song].kind = "leaf"

StoredBytes(d, playlist, song) == d.keys[playlist].songs[song].val

WellFormed(bytes) == bytes \in {RecPathA, RecNoPath}

PathOf(bytes) == IF bytes = RecPathA THEN <<"/", "a">> ELSE <<>>

\* C5: when the store holds a well-formed record with path P for (p, s),
\* GetPlaylistFilePath returns P and no error, whatever is at the fallback
\* location.
C5_RecordedPathWins ==
    (/\ Resolved
     /\ HasRecord(db, sRet.playlist, sRet.song)
     /\ WellFormed(StoredBytes(db, sRet.playlist, sRet.song)))
      => /\ sRet.err = "nil"
         /\ sRet.path = PathOf(StoredBytes(db, sRet.playlist, sRet.song))

C5_Witness ==
    /\ Resolved
    /\ HasRecord(db, sRet.playlist, sRet.song)
    /\ StoredBytes(db, sRet.playlist, sRet.song) = RecPathA
    /\ disk[DiskPath(sRet.playlist, sRet.song)] = "file"
    /\ sRet.path = <<"/", "a">>

\* C6: when the store holds no record for (p, s), GetPlaylistFilePath
\* returns mountRoot/playlists/p/s, with one '/' after the mount root
\* whether or not it ends in one, exactly when a non-directory file is
\* there; otherwise it returns the not-found error and an empty path.
C6_FallbackIffFile ==
    (Resolved /\ ~HasRecord(db, sRet.playlist, sRet.song)) =>
        IF disk[DiskPath(sRet.playlist, sRet.song)] = "file"
        THEN sRet.err = "nil" /\ sRet.path = DiskPath(sRet.playlist, sRet.song)
        ELSE sRet.err = "File not exists." /\ sRet.path = <<>>

C6_Witness ==
    /\ Resolved
    /\ ~HasRecord(db, sRet.playlist, sRet.song)
    /\ sRet.mPoint = MountA
    /\ disk[DiskPath(sRet.playlist, sRet.song)] = "file"
    /\ sRet.path = DiskPath(sRet.playlist, sRet.song)

\* C7: when a record exists for (playlist, song) and its bytes fail to
\* deserialize, GetPlaylistFilePath fails with the 'entry unreadable' error
\* and returns no path, also when a file is at the fallback location.
C7_UnreadableIsAnError ==
    (/\ Resolved
     /\ HasRecord(db, sRet.playlist, sRet.song)
     /\ ~WellFormed(StoredBytes(db, sRet.playlist, sRet.song)))
      => sRet.err = "Cannot open song." /\ sRet.path = <<>>

\* The last store operation was a CreatePlaylist the store did not fail.
CreatedNoFailure ==
    /\ sRet.op = "CreatePlaylist"
    /\ sRet.openErr = "nil"
    /\ sRet.commitErr = "nil"

\* The normalized form of the names the model creates playlists with.
Normalized(raw) ==
    CASE raw = <<"P">> -> <<"P">>
      [] raw = <<"P", " ">> -> <<"P">>
      [] raw = <<"Q">> -> <<"Q">>
      [] raw = <<"Q", " ", " ">> -> <<"Q">>

\* C9: a CreatePlaylist whose name normalizes to the name an earlier
\* successful call returned returns no error and that same name, leaves the
\* bucket Playlists/<name> in place and changes nothing in the store.
C9_CreateTwice ==
    (CreatedNoFailure /\ sRet.again) =>
        /\ sRet.err = "nil"
        /\ sRet.path = Normalized(sRet.playlist)
        /\ db.root /\ db.keys[Normalized(sRet.playlist)].kind = "bucket"
        /\ db = prevDb

C9_Witness ==
    /\ CreatedNoFailure
    /\ sRet.again
    /\ sRet.playlist = <<"P", " ">>
    /\ sRet.err = "nil"
    /\ db.keys[<<"P">>].songs[<<"s">>].kind = "leaf"
    /\ db.keys[<<"Q">>].kind = "bucket"

\* C10: CreatePlaylist regenerates the playlist file only after the update
\* transaction has committed, and only then; when opening the store or the
\* transaction fails it returns the error with an empty name and the store
\* is as it was before the call.
C10_RegenerateAfterCommit ==
    sRet.op = "CreatePlaylist" =>
        /\ (\E i \in 1 .. Len(sRet.events) : sRet.events[i] = "RegeneratePlaylistFile")
             => /\ sRet.err = "nil"
                /\ sRet.events = <<"Update", "Commit", "RegeneratePlaylistFile">>
        /\ sRet.err = "nil"
             => sRet.events = <<"Update", "Commit", "RegeneratePlaylistFile">>
        /\ sRet.err # "nil"
             => /\ sRet.path = <<>>
                /\ db = prevDb
                /\ \A i \in 1 .. Len(sRet.events) : sRet.events[i] # "RegeneratePlaylistFile"

C10_Witness ==
    /\ sRet.op = "CreatePlaylist"
    /\ sRet.err = "errCommit"
    /\ ~db.root
    /\ sRet.events = <<"Update", "Rollback">>

-----------------------------------------------------------------------------
(* Flush, tag rewriting and Write *)

\* C11: Flush on a handle without descriptor succeeds on .description and
\* returns EIO on any other node; Flush on a handle with a descriptor
\* succeeds.
C11_FlushByKind ==
    opRet.op = "Flush" =>
        IF handles[opRet.h].r = "nil"
        THEN IF f.name = S_description THEN opRet.err = "nil" ELSE opRet.err = "EIO"
        ELSE opRet.err = "nil"

\* The call to the tag-rewrite collaborator the Release of h made, if any.
TagCalls(h) ==
    {i \in 1 .. Len(handles[h].calls) : handles[h].calls[i].fn = "SetMp3Tags"}

\* C12: when the tag-rewrite collaborator fails in the Release of a song
\* handle, Release returns that failure, and the descriptor is closed.
C12_TagFailureReturned ==
    \A h \in Slots : \A i \in TagCalls(h) :
        handles[h].calls[i].res # "nil"
          => handles[h].ret = handles[h].calls[i].res /\ handles[h].r = "closed"

\* C15: Write on a .description handle fails with EPERM; Write on a handle
\* with a descriptor succeeds and reports as many bytes written as the
\* request carried.
C15_WriteThrough ==
    opRet.op = "Write" =>
        /\ (handles[opRet.h].r = "nil" /\ f.name = S_description)
             => opRet.err = "EPERM"
        /\ handles[opRet.h].r # "nil"
             => opRet.err = "nil" /\ opRet.size = Len(opRet.bytes)

-----------------------------------------------------------------------------
(* Read *)

\* C20: a successful Read on a handle with a descriptor returns at most
\* the requested number of bytes, and they are the bytes of the file from
\* the request's offset on, whatever was read before on the handle.
C20_ReadAtOffset ==
    (opRet.op = "Read" /\ handles[opRet.h].r # "nil" /\ opRet.err = "nil") =>
        /\ Len(opRet.bytes) <= opRet.size
        /\ opRet.bytes = SubSeq(FileContent, opRet.off + 1,
                                Min(opRet.off + opRet.size, Len(FileContent)))

-----------------------------------------------------------------------------
(* The node lock, read-only release, tag rewriting, Attr, the writer count *)

C14_HolderState ==
    /\ \A h \in Slots : InRelease(h) <=> mu = h
    /\ attr = "locked" <=> mu = AttrHolder

C14_AccessStep ==
    (/\ opRet'.op \in {"ReleaseLock", "ReleaseDec", "ReleaseChk", "Release",
                       "AttrLock", "Attr"}
     /\ writers' # writers \/ data' # data)
      => mu = opRet'.h /\ mu' = mu /\ mu # 0

\* C14: Release is at its decrement, its test or its return exactly while
\* it holds the node's mutex, and Attr is at its reads of the writer count
\* and the buffer exactly while it holds it; so the two never access that
\* state together, every change of it by them is made by the holder, and
\* the mutex is free again once they have returned.
C14_AccessUnderLock == [](C14_HolderState) /\ [][C14_AccessStep]_vars

C14_Witness ==
    \E h, g \in WriterHandles :
        /\ handles[h].st = "rel_chk"
        /\ mu = h
        /\ handles[g].st = "open"
        /\ attr = "idle"
        /\ writers = 1

\* The handles without descriptor whose Release returns before the lock.
QuietHandle(h) ==
    /\ handles[h].st # "free"
    /\ handles[h].r = "nil"
    /\ ~IsSpecial(f.name) \/ f.name = S_description \/ IsReadOnly(handles[h].flags)

C16_QuietStep ==
    \A h \in Slots :
        (QuietHandle(h) /\ handles'[h].st # handles[h].st)
          => /\ handles'[h].st = "done"
             /\ handles'[h].ret = "nil"
             /\ UNCHANGED <<writers, data, mu>>

\* C16: the Release of a descriptor-less handle that was opened read-only
\* on a special file, or that is on .description or another non-special
\* name, is one step that returns success and leaves the writer count, the
\* buffer and the lock as they were.
C16_ReadOnlyRelease == [][C16_QuietStep]_vars

C16_Witness ==
    \E h \in Slots :
        /\ IsSpecial(f.name)
        /\ handles[h].st = "done"
        /\ handles[h].flags = "RO"
        /\ opRet.op = "Release" /\ opRet.h = h
        /\ writers = 1
        /\ ~data.isNil

CallsOf(h, fn) ==
    {i \in 1 .. Len(handles[h].calls) : handles[h].calls[i].fn = fn}

\* Where and how the tag-rewrite collaborator is invoked.
C17_TagCallPlace ==
    \A h \in Slots : \A i \in TagCalls(h) :
        /\ handles[h].st = "done"
        /\ handles[h].r # "nil"
        /\ Len(f.artist) > 0 /\ Len(f.album) > 0
        /\ f.artist # S_drop
        /\ Ext(f.name) = S_mp3
        /\ \E j \in CallsOf(h, "Close") : j < i
        /\ \E j \in CallsOf(h, "GetFilePath") :
             j < i /\ handles[h].calls[j].res = "nil"
        /\ handles[h].calls[i].arg = RealPath

TagQuiet(h) ==
    \A i \in TagCalls(h) : handles[h].calls[i].res = "nil"

CloseResult(h) == handles[h].calls[1].res

\* C17 as stated: the tag-rewrite collaborator is invoked only by the
\* Release of a handle with a descriptor, artist and album set, outside the
\* drop area, on a recognized extension, after the close and with the
\* resolved path; when it is not invoked or succeeds, Release returns the
\* result of the close.
C17_TagRewriteAsStated ==
    /\ C17_TagCallPlace
    /\ \A h \in Slots :
         (handles[h].st = "done" /\ handles[h].r # "nil" /\ TagQuiet(h))
           => handles[h].ret = CloseResult(h)

\* C17, amended: as above, but Release returns the result of the close,
\* when the collaborator is not invoked or succeeds, only if neither the
\* drop handler nor path resolution failed; when one of them failed Release
\* returns that error.
C17_TagRewrite ==
    /\ C17_TagCallPlace
    /\ \A h \in Slots :
         (handles[h].st = "done" /\ handles[h].r # "nil" /\ TagQuiet(h))
           => LET failed == {i \in CallsOf(h, "HandleDrop") \cup CallsOf(h, "GetFilePath") :
                               handles[h].calls[i].res # "nil"} IN
              /\ failed = {} => handles[h].ret = CloseResult(h)
              /\ \A i \in failed : handles[h].ret = handles[h].calls[i].res

C17_Witness ==
    \E h \in Slots : \E i \in TagCalls(h) :
        /\ handles[h].calls[i].res = "nil"
        /\ CloseResult(h) = "errClose"
        /\ handles[h].ret = "errClose"

C18_AttrState ==
    (opRet.op = "Attr" /\ IsDotFile(f.name)) =>
        IF writers = 0
        THEN /\ Len(opRet.calls) = 1 /\ opRet.calls[1].fn = "GetSpecialFile"
             /\ opRet.err = opRet.calls[1].res
             /\ opRet.err = "nil" => opRet.size = Len(StoredSpecial)
        ELSE /\ opRet.calls = <<>>
             /\ opRet.err = "nil"
             /\ opRet.size = Len(data.b)
             /\ opRet.mode = "0666"

C18_AttrStep ==
    opRet'.op \in {"Attr", "AttrLock"} => UNCHANGED <<writers, data>>

\* C18: Attr on a dot name other than .description reports, when the
\* writer count is 0, the size of the special file stored in the metadata
\* store or the store's error; when the count is not 0 it reports the
\* length of the buffer with mode 0666 and does not ask the store. No step
\* of Attr changes the writer count or the buffer.
C18_AttrSpecial == [](C18_AttrState) /\ [][C18_AttrStep]_vars

C18_Witness ==
    /\ opRet.op = "Attr"
    /\ IsSpecial(f.name)
    /\ writers = 1
    /\ data.b # <<>>
    /\ opRet.size = Len(data.b)

-----------------------------------------------------------------------------
(* ListPlaylists and ListPlaylistSongs *)

\* Song names used as keys of a playlist bucket and as file names on disk.
ListNames == {<<"a">>, <<"a", "b">>, <<"b">>}

ListEntries == {NoEntry, SubBucket, Leaf(RecPathA)}

ListRootEntries ==
    {NoKey, RootLeaf} \cup {Playlist(ss) : ss \in [ListNames -> ListEntries]}

ListDbs ==
    {NoDb} \cup
    {[root |-> TRUE,
      keys |-> [p \in PlaylistKeys |-> IF p = <<"P">> THEN e ELSE NoKey]] :
        e \in ListRootEntries}

ListDisks == [{DiskPath(<<"P">>, n) : n \in ListNames} -> {"none", "file", "dir"}]

ReadDirErrs == {"nil", "EACCES"}

\* The byte value of a character.
Byte(c) ==
    CASE c = "P" -> 80
      [] c = "Q" -> 81
      [] c = "a" -> 97
      [] c = "b" -> 98

\* bytes.Compare(x, y) < 0, which is also x < y on Go strings
RECURSIVE Less(_, _)
Less(x, y) ==
    IF y = <<>> THEN FALSE
    ELSE IF x = <<>> THEN TRUE
    ELSE IF Head(x) # Head(y) THEN Byte(Head(x)) < Byte(Head(y))
    ELSE Less(Tail(x), Tail(y))

RECURSIVE Insert(_, _)
Insert(x, sorted) ==
    IF sorted = <<>> THEN <<x>>
    ELSE IF Less(x, Head(sorted)) THEN <<x>> \o sorted
    ELSE <<Head(sorted)>> \o Insert(x, Tail(sorted))

\* The names of a sequence in increasing byte order.
RECURSIVE SortNames(_)
SortNames(names) ==
    IF names = <<>> THEN <<>> ELSE Insert(Head(names), SortNames(Tail(names)))

RECURSIVE SeqOf(_)
SeqOf(S) ==
    IF S = {} THEN <<>>
    ELSE LET x == CHOOSE y \in S : TRUE IN <<x>> \o SeqOf(S \ {x})

\* c.First(), c.Next(), ...: the keys of a bucket in byte order, with their
\* entries (the value of a nested bucket reads as nil).
Cursor(entries) ==
    LET keys == SortNames(SeqOf({k \in DOMAIN entries : entries[k].kind # "none"})) IN
    [i \in 1..Len(keys) |-> [k |-> keys[i], kind |-> entries[keys[i]].kind]]

Dirent(name, type) == [name |-> name, type |-> type]


\* The names directly inside directory dir (a path ending in "/").
DirNames(dsk, dir) ==
    {SubSeq(p, Len(dir) + 1, Len(p)) :
       p \in {q \in DOMAIN dsk :
                /\ dsk[q] # "none"
                /\ Len(q) > Len(dir)
                /\ SubSeq(q, 1, Len(dir)) = dir
                /\ \A i \in (Len(dir) + 1)..Len(q) : q[i] # "/"}}

\* The orders in which the file system may hand back the names of a directory.
RawOrders(dsk, dir) ==
    LET names == DirNames(dsk, dir) IN
    {s \in [1..Cardinality(names) -> names] :
       \A i, j \in 1..Cardinality(names) : i # j => s[i] # s[j]}

ReadDir_Unsorted(dsk, dir, raw, err) ==
    IF err # "nil"
    THEN <<>>
    ELSE [i \in 1..Len(raw) |->
            [name |-> raw[i], isDir |-> Stat(dsk, dir \o raw[i]) = "dir"]]

\* ioutil.ReadDir(dir): the entries read from the directory, sorted by file
\* name; nothing when the directory cannot be read.
ReadDir(dsk, dir, raw, err) ==
    IF err # "nil"
    THEN <<>>
    ELSE LET sorted == SortNames(raw) IN
         [i \in 1..Len(sorted) |->
            [name |-> sorted[i], isDir |-> Stat(dsk, dir \o sorted[i]) = "dir"]]

\* a = append(a, node) with node.Name = name and node.Type = type, for every
\* name of names
Dirents(names, type) == [i \in 1..Len(names) |-> Dirent(names[i], type)]

\* The keys the cursor visits whose entry is of the given kind.
KeysOfKind(entries, kind) ==
    LET kept == SelectSeq(Cursor(entries), LAMBDA e : e.kind = kind) IN
    [i \in 1..Len(kept) |-> kept[i].k]

\* The names of the entries for which IsDir() is false.
NonDirNames(files) ==
    LET kept == SelectSeq(files, LAMBDA fi : ~fi.isDir) IN
    [i \in 1..Len(kept) |-> kept[i].name]

ListPlaylists(d, openErr) ==
    IF openErr # "nil"
    THEN [list |-> <<>>, err |-> openErr]
    ELSE IF ~d.root
    THEN [list |-> <<>>, err |-> "nil"]
    ELSE [list |-> Dirents(KeysOfKind(d.keys, "bucket"), "DT_Dir"), err |-> "nil"]

\* The function passed to db.View by ListPlaylistSongs: the slice it fills.
ViewSongs(d, playlist) ==
    IF ~d.root
    THEN <<>>
    ELSE IF playlist \notin DOMAIN d.keys \/ d.keys[playlist].kind # "bucket"
    THEN <<>>
    ELSE Dirents(KeysOfKind(d.keys[playlist].songs, "leaf"), "DT_File")

ListPlaylistSongs(d, dsk, playlist, mPoint, openErr, raw, readErr) ==
    IF openErr # "nil"
    THEN [list |-> <<>>, err |-> openErr]
    ELSE LET a == ViewSongs(d, playlist)
             fullPath == WithSlash(mPoint) \o S_playlistsSlash \o playlist \o <<"/">>
             files == ReadDir(dsk, fullPath, raw, readErr) IN
         [list |-> a \o Dirents(NonDirNames(files), "DT_File"), err |-> "nil"]

DoListPlaylists ==
    /\ \E openErr \in DbOpenErrs :
         LET res == ListPlaylists(db, openErr) IN
         sRet' = [NoSRet EXCEPT !.op = "ListPlaylists", !.openErr = openErr,
                                !.list = res.list, !.err = res.err]
    /\ prevDb' = db
    /\ UNCHANGED <<db, disk, created>>
    /\ UNCHANGED fileVars

\* The directory is read only when the database has been opened; an order is
\* handed back only when the directory has been read.
DoListPlaylistSongs ==
    /\ \E playlist \in PlaylistKeys, mPoint \in {MountA, MountB},
          openErr \in DbOpenErrs, readErr \in ReadDirErrs :
         LET dir == WithSlash(mPoint) \o S_playlistsSlash \o playlist \o <<"/">> IN
         /\ openErr # "nil" => readErr = "nil"
         /\ \E raw \in (IF openErr = "nil" /\ readErr = "nil"
                         THEN RawOrders(disk, dir) ELSE {<<>>}) :
              LET res == ListPlaylistSongs(db, disk, playlist, mPoint, openErr,
                                           raw, readErr) IN
              sRet' = [NoSRet EXCEPT !.op = "ListPlaylistSongs",
                                     !.playlist = playlist, !.mPoint = mPoint,
                                     !.openErr = openErr, !.readErr = readErr,
                                     !.raw = raw, !.list = res.list,
                                     !.err = res.err]
    /\ prevDb' = db
    /\ UNCHANGED <<db, disk, created>>
    /\ UNCHANGED fileVars

ListInit ==
    /\ f = MkFile(<<>>, <<>>, <<"l", ".", "m", "3", "u">>, MountA)
    /\ writers = 0
    /\ data = NilData
    /\ mu = 0
    /\ attr = "idle"
    /\ handles = [h \in Slots |-> FreeHandle]
    /\ opRet = NoRet
    /\ db \in ListDbs
    /\ disk \in ListDisks
    /\ sRet = NoSRet
    /\ prevDb = db
    /\ created = {}

ListNext ==
    \/ DoListPlaylists
    \/ DoListPlaylistSongs

ListSpec == ListInit /\ [][ListNext]_vars


-----------------------------------------------------------------------------
(* Properties of the listing *)

\* A call of ListPlaylistSongs that has returned a listing.
Listed == sRet.op = "ListPlaylistSongs" /\ sRet.err = "nil"

\* The keys of bucket Playlists/p that have a non-nil value.
LeafKeys(p) ==
    IF db.root /\ db.keys[p].kind = "bucket"
    THEN {k \in DOMAIN db.keys[p].songs : db.keys[p].songs[k].kind = "leaf"}
    ELSE {}

\* The non-directory files in mountRoot/playlists/p/.
DiskFiles(p) == {n \in ListNames : Stat(disk, DiskPath(p, n)) = "file"}

\* seq holds one file entry per name of S and nothing else.
ListsExactly(seq, S) ==
    /\ Len(seq) = Cardinality(S)
    /\ {seq[i].name : i \in 1..Len(seq)} = S
    /\ \A i \in 1..Len(seq) : seq[i].type = "DT_File"

NameSorted(seq) ==
    \A i, j \in 1..Len(seq) : i < j => Less(seq[i].name, seq[j].name)

\* The entries of seq come in the order in which order holds their names.
InOrderOf(seq, order) ==
    \A i, j \in 1..Len(seq) :
       i < j => \E a, b \in 1..Len(order) :
                   a < b /\ order[a] = seq[i].name /\ order[b] = seq[j].name

DbPart == SubSeq(sRet.list, 1, Min(Cardinality(LeafKeys(sRet.playlist)), Len(sRet.list)))

DiskPart ==
    SubSeq(sRet.list, Cardinality(LeafKeys(sRet.playlist)) + 1, Len(sRet.list))

Occurrences(n) == Cardinality({i \in 1..Len(sRet.list) : sRet.list[i].name = n})

\* C13 as stated: the listing is the non-nil keys of the bucket in key order,
\* then the non-directory files of mountRoot/playlists/p/ in the order in
\* which the directory holds them.
C13_ListingAsStated ==
    Listed =>
       /\ ListsExactly(DbPart, LeafKeys(sRet.playlist))
       /\ NameSorted(DbPart)
       /\ ListsExactly(DiskPart, DiskFiles(sRet.playlist))
       /\ InOrderOf(DiskPart, sRet.raw)

\* C13: ListPlaylistSongs(p, mountRoot) returns one file entry per key of
\* bucket Playlists/p that has a non-nil value, in key order, followed, when
\* the directory mountRoot/playlists/p/ can be read, by one file entry per
\* non-directory file in it in file-name order, and by nothing when it cannot
\* be read; sub-bucket keys and subdirectories are never emitted, and a name
\* that is both a record and a file read from disk appears exactly twice.
C13_Listing ==
    Listed =>
       LET p == sRet.playlist
           read == IF sRet.readErr = "nil" THEN DiskFiles(p) ELSE {} IN
       /\ ListsExactly(DbPart, LeafKeys(p))
       /\ NameSorted(DbPart)
       /\ ListsExactly(DiskPart, read)
       /\ NameSorted(DiskPart)
       /\ \A n \in ListNames :
             Occurrences(n) = (IF n \in LeafKeys(p) THEN 1 ELSE 0)
                                + (IF n \in read THEN 1 ELSE 0)

\* A listing with a record, a sub-bucket key, a name that is both a record
\* and a file, a subdirectory, and files the directory held out of order.
C13_Witness ==
    /\ Listed
    /\ sRet.readErr = "nil"
    /\ sRet.mPoint = MountA
    /\ db.keys[sRet.playlist].kind = "bucket"
    /\ \E k \in ListNames : db.keys[sRet.playlist].songs[k].kind = "bucket"
    /\ \E n \in ListNames : Stat(disk, DiskPath(sRet.playlist, n)) = "dir"
    /\ \E n \in ListNames : Occurrences(n) = 2
    /\ Len(DiskPart) = 2
    /\ ~NameSorted([i \in 1..Len(sRet.raw) |-> Dirent(sRet.raw[i], "DT_File")])

=============================================================================
